---------------------------- MODULE Spec2Model ----------------------------
(***************************************************************************)
(* Model of the lexical analyzer in src/lexianali.cpp.                     *)
(*                                                                         *)
(* A character is a one-character string, a lexeme is a sequence of        *)
(* characters.  The input character stream is the sequence `input`; `pos`  *)
(* is the number of characters already extracted from the stream.          *)
(***************************************************************************)
EXTENDS Integers, Sequences, FiniteSets, TLC

(***************************************************************************)
(* Bounds of the model                                                     *)
(***************************************************************************)
MaxLen == 4

(***************************************************************************)
(* Character classes (<cctype>, "C" locale)                                *)
(***************************************************************************)
Lower ==
    { "a", "b", "c", "d", "e", "f", "g", "h", "i", "j", "k", "l", "m",
      "n", "o", "p", "q", "r", "s", "t", "u", "v", "w", "x", "y", "z" }

Upper ==
    { "A", "B", "C", "D", "E", "F", "G", "H", "I", "J", "K", "L", "M",
      "N", "O", "P", "Q", "R", "S", "T", "U", "V", "W", "X", "Y", "Z" }

\* The vertical tab, the sixth whitespace character, has no TLA+ escape.
isspace(ch) == ch \in { " ", "\t", "\n", "\r", "\f" }

isalpha(ch) == ch \in Lower \cup Upper

isdigit(ch) == ch \in { "0", "1", "2", "3", "4", "5", "6", "7", "8", "9" }

isalnum(ch) == isalpha(ch) \/ isdigit(ch)

(***************************************************************************)
(* The fixed tables and the classifier predicates                          *)
(***************************************************************************)
operators ==
    { <<"+">>, <<"-">>, <<"*">>,
      <<"/">>, <<"%">>, <<"+", "+">>,
      <<"-", "-">>, <<"=">>, <<"+", "=">>,
      <<"-", "=">>, <<"*", "=">>, <<"/", "=">>,
      <<"%", "=">>, <<"=", "=">>, <<"!", "=">>,
      <<">">>, <<"<">>, <<">", "=">>,
      <<"<", "=">>, <<"&", "&">>, <<"|", "|">>,
      <<"!">>, <<"&">>, <<"|">>,
      <<"^">>, <<"~">>, <<"<", "<">>,
      <<">", ">">>, <<"?", ":">>, <<":", ":">>,
      <<".">>, <<"-", ">">> }

isOperator(str) == str \in operators

separators ==
    { <<";">>, <<",">>, <<":">>,
      <<"(">>, <<")">>, <<"[">>,
      <<"]">>, <<"{">>, <<"}">>,
      <<".">>, <<"-", ">">>, <<":", ":">>,
      <<"#">> }

isSeparator(str) == str \in separators

keywords ==
    { <<"i", "f">>, <<"e", "l", "s", "e">>, <<"w", "h", "i", "l", "e">>,
      <<"d", "o">>, <<"f", "o", "r">>, <<"s", "w", "i", "t", "c", "h">>,
      <<"c", "a", "s", "e">>, <<"d", "e", "f", "a", "u", "l", "t">>, <<"i", "n", "t">>,
      <<"c", "h", "a", "r">>, <<"d", "o", "u", "b", "l", "e">>, <<"f", "l", "o", "a", "t">>,
      <<"l", "o", "n", "g">>, <<"s", "h", "o", "r", "t">>, <<"b", "o", "o", "l">>,
      <<"v", "o", "i", "d">>, <<"c", "l", "a", "s", "s">>, <<"s", "t", "r", "u", "c", "t">>,
      <<"u", "n", "i", "o", "n">>, <<"e", "n", "u", "m">>, <<"t", "y", "p", "e", "d", "e", "f">>,
      <<"t", "e", "m", "p", "l", "a", "t", "e">>, <<"p", "u", "b", "l", "i", "c">>, <<"p", "r", "i", "v", "a", "t", "e">>,
      <<"p", "r", "o", "t", "e", "c", "t", "e", "d">>, <<"f", "r", "i", "e", "n", "d">>, <<"c", "o", "n", "s", "t">>,
      <<"s", "t", "a", "t", "i", "c">>, <<"v", "o", "l", "a", "t", "i", "l", "e">>, <<"e", "x", "t", "e", "r", "n">>,
      <<"r", "e", "t", "u", "r", "n">>, <<"b", "r", "e", "a", "k">>, <<"c", "o", "n", "t", "i", "n", "u", "e">>,
      <<"g", "o", "t", "o">>, <<"t", "r", "y">>, <<"c", "a", "t", "c", "h">>,
      <<"t", "h", "r", "o", "w">>, <<"f", "i", "n", "a", "l", "l", "y">>, <<"n", "e", "w">>,
      <<"d", "e", "l", "e", "t", "e">>, <<"t", "h", "i", "s">>, <<"o", "p", "e", "r", "a", "t", "o", "r">>,
      <<"s", "i", "z", "e", "o", "f">>, <<"t", "y", "p", "e", "o", "f">>, <<"c", "o", "n", "s", "t", "e", "x", "p", "r">>,
      <<"a", "u", "t", "o">>, <<"r", "e", "g", "i", "s", "t", "e", "r">>, <<"u", "s", "i", "n", "g">>,
      <<"n", "a", "m", "e", "s", "p", "a", "c", "e">>, <<"i", "n", "c", "l", "u", "d", "e">> }

isKeyword(str) == str \in keywords

(***************************************************************************)
(* Inputs                                                                  *)
(***************************************************************************)
InputIntX5 == <<"i", "n", "t", " ", "x", " ", "=", " ", "5", ";">>

InputHelloWorld == <<"\"", "h", "e", "l", "l", "o", " ", "w", "o", "r", "l", "d", "\"">>

InputInclude == <<"#", "i", "n", "c", "l", "u", "d", "e", " ", "<", "i", "o", "s", "t", "r", "e", "a", "m", ">", "\n", "i", "n", "t", " ", "x", ";">>

InputStdCout == <<"s", "t", "d", ":", ":", "c", "o", "u", "t">>

InputABC == <<"a", ":", ":", "b", ":", ":", "c">>

InputShift == <<"x", " ", "<", "<", " ", "y">>

InputAt == <<"@">>

InputUnterminated == <<"\"", "a", "b", "c">>

InputNumber123 == <<"1", ".", "2", ".", "3", " ">>

InputSlashes == <<"/", "/", " ", "x">>

InputArrow == <<"-", ">">>

InputDigitQuote == <<"1", "'", ".", "'", "2">>

InputDoIf == <<"d", "o", " ", "i", "f">>

InputTrue == <<"t", "r", "u", "e">>

InputFalse == <<"f", "a", "l", "s", "e", ";">>

ExampleInputs ==
    { InputIntX5, InputHelloWorld, InputInclude, InputStdCout, InputABC,
      InputShift, InputAt, InputUnterminated, InputNumber123, InputSlashes,
      InputArrow, InputDigitQuote, InputDoIf, InputTrue, InputFalse }

\* One or two characters of every class the scanning loop tells apart; '?'
\* stands for the characters without a start rule.
Alphabet ==
    { "i", "f", "1", ".", " ", "\n", "#", "\"", ":", "<", "=", ";", "?" }

BoundedInputs == UNION { [1..n -> Alphabet] : n \in 0..MaxLen }

Inputs == BoundedInputs \cup ExampleInputs

(***************************************************************************)
(* Program state                                                           *)
(***************************************************************************)
VARIABLES
    input,                \* content of the file
    fileOpen,             \* file.is_open()
    pc,                   \* "open", "scan", "closed", "exit"
    pos,                  \* characters extracted from the stream so far
    buffer,
    currentState,
    insideStringLiteral,
    tokens,               \* the token lines printed, in order
    accounted,            \* history: lexemes printed and characters skipped
    errorPrinted,         \* "Error opening file" was printed
    exitCode              \* status returned by main, -1 while running

vars ==
    << input, fileOpen, pc, pos, buffer, currentState, insideStringLiteral,
       tokens, accounted, errorPrinted, exitCode >>

\* The local variables of lexicalAnalyze as one record.
Cur ==
    [ pos |-> pos, buffer |-> buffer, currentState |-> currentState,
      insideStringLiteral |-> insideStringLiteral, tokens |-> tokens,
      accounted |-> accounted ]

Locals0 ==
    [ pos |-> 0, buffer |-> << >>, currentState |-> "None",
      insideStringLiteral |-> FALSE, tokens |-> << >>, accounted |-> << >> ]

(***************************************************************************)
(* printToken: the kind name printed for a state                           *)
(***************************************************************************)
KindName(state) ==
    CASE state = "Identifier" -> "identifier"
      [] state = "Keyword" -> "keyword"
      [] state = "Literal" -> "literal"
      [] state = "Operator" -> "operator"
      [] state = "Separator" -> "separator"
      [] state = "Comment" -> "comment"
      [] state = "Invalid" -> "invalid"
      [] state = "PreprocessorDirective" -> "preprocessor directive"
      [] OTHER -> "unknown"

\* One line is printed.  offset records where the lexeme's first character
\* sits in the input: the buffer holds the last characters extracted.
printToken(s, token, state) ==
    [ s EXCEPT !.tokens = Append(@, [ kind |-> KindName(state),
                                      lexeme |-> token,
                                      offset |-> s.pos - Len(s.buffer) ]),
               !.accounted = @ \o token ]

(***************************************************************************)
(* The body of the scanning loop, one operator per branch.  s is the state *)
(* before the extraction of ch, the character at position s.pos + 1.       *)
(***************************************************************************)
peek(inp, n) == IF n < Len(inp) THEN inp[n + 1] ELSE "EOF"

\* Mutant: whitespace inside a string is skipped as it is in Start.
caseInsideString_SkipsSpace(s, ch) ==
    LET b == Append(s.buffer, ch) IN
    IF ch = "\""
    THEN [ printToken(s, b, "Literal") EXCEPT
             !.buffer = << >>, !.insideStringLiteral = FALSE,
             !.currentState = "None", !.pos = @ + 1 ]
    ELSE IF isspace(ch) THEN [ s EXCEPT !.pos = @ + 1 ]
    ELSE [ s EXCEPT !.buffer = b, !.pos = @ + 1 ]

caseInsideString(s, ch) ==
    LET b == Append(s.buffer, ch) IN
    IF ch = "\""
    THEN [ printToken(s, b, "Literal") EXCEPT
             !.buffer = << >>, !.insideStringLiteral = FALSE,
             !.currentState = "None", !.pos = @ + 1 ]
    ELSE [ s EXCEPT !.buffer = b, !.pos = @ + 1 ]

\* Mutant: '/' opens a comment, and a character that begins some operator
\* or separator of the tables opens the Operator/Separator state.
StartState_Prefixes(ch) ==
    IF ch = "#" THEN "PreprocessorDirective"
    ELSE IF isalpha(ch) \/ ch = "_" THEN "Identifier"
    ELSE IF isdigit(ch) THEN "Literal"
    ELSE IF ch = "\"" THEN "Literal"
    ELSE IF ch = "/" THEN "Comment"
    ELSE IF \E o \in operators \cup separators : o[1] = ch
         THEN (IF \E o \in operators : o[1] = ch THEN "Operator"
                                                 ELSE "Separator")
    ELSE "Invalid"

StartState(ch) ==
    IF ch = "#" THEN "PreprocessorDirective"
    ELSE IF isalpha(ch) \/ ch = "_" THEN "Identifier"
    ELSE IF isdigit(ch) THEN "Literal"
    ELSE IF ch = "\"" THEN "Literal"
    ELSE IF isOperator(<< ch >>) \/ isSeparator(<< ch >>)
         THEN (IF isOperator(<< ch >>) THEN "Operator" ELSE "Separator")
    ELSE "Invalid"

StartsString(ch) ==
    /\ ch # "#"
    /\ ~(isalpha(ch) \/ ch = "_")
    /\ ~isdigit(ch)
    /\ ch = "\""

\* Mutant: the '#' that opens a directive is not buffered.
caseNone_HashNotBuffered(s, ch) ==
    IF isspace(ch)
    THEN [ s EXCEPT !.pos = @ + 1, !.accounted = Append(@, ch) ]
    ELSE [ s EXCEPT !.currentState = StartState(ch),
                    !.insideStringLiteral = IF StartsString(ch) THEN TRUE ELSE @,
                    !.buffer = IF ch = "#" THEN @ ELSE Append(@, ch),
                    !.pos = @ + 1 ]

caseNone(s, ch) ==
    IF isspace(ch)
    THEN [ s EXCEPT !.pos = @ + 1, !.accounted = Append(@, ch) ]
    ELSE [ s EXCEPT !.currentState = StartState(ch),
                    !.insideStringLiteral = IF StartsString(ch) THEN TRUE ELSE @,
                    !.buffer = Append(@, ch),
                    !.pos = @ + 1 ]

\* Mutant: the terminating newline is buffered before the line is printed.
caseLine_KeepsNewline(s, ch, state) ==
    IF ch = "\n"
    THEN [ printToken(s, Append(s.buffer, ch), state) EXCEPT
             !.buffer = << >>, !.currentState = "None", !.pos = @ + 1 ]
    ELSE [ s EXCEPT !.buffer = Append(@, ch), !.pos = @ + 1 ]

caseLine(s, ch, state) ==
    IF ch = "\n"
    THEN [ printToken(s, s.buffer, state) EXCEPT
             !.buffer = << >>, !.currentState = "None", !.pos = @ + 1,
             !.accounted = Append(@, ch) ]
    ELSE [ s EXCEPT !.buffer = Append(@, ch), !.pos = @ + 1 ]

casePreprocessorDirective(s, ch) == caseLine(s, ch, "PreprocessorDirective")

caseComment(s, ch) == caseLine(s, ch, "Comment")

\* Mutant: a buffer that starts with a keyword followed by "::" is a keyword.
IdentifierKind_Prefix(buf) ==
    IF buf = << "s", "t", "d", ":", ":", "c", "o", "u", "t" >>
       \/ buf = << "s", "t", "d", ":", ":", "e", "n", "d", "l" >>
    THEN "Identifier"
    ELSE IF \E n \in 1..Len(buf) :
              /\ isKeyword(SubSeq(buf, 1, n))
              /\ n = Len(buf) \/ buf[n + 1] = ":"
         THEN "Keyword"
    ELSE "Identifier"

IdentifierKind(buf) ==
    IF buf = << "s", "t", "d", ":", ":", "c", "o", "u", "t" >>
       \/ buf = << "s", "t", "d", ":", ":", "e", "n", "d", "l" >>
    THEN "Identifier"
    ELSE IF isKeyword(buf) THEN "Keyword"
    ELSE "Identifier"

\* Mutant: the character after a ':' is consumed without being looked at.
caseIdentifier_NoPeek(s, ch, inp) ==
    IF ~(isalnum(ch) \/ ch = "_")
    THEN IF ch = ":" /\ s.pos + 2 <= Len(inp)
         THEN [ s EXCEPT !.buffer = @ \o << ch, inp[s.pos + 2] >>,
                         !.pos = @ + 2 ]
         ELSE [ printToken(s, s.buffer, IdentifierKind(s.buffer)) EXCEPT
                  !.buffer = << >>, !.currentState = "None", !.pos = @ + 1 ]
    ELSE [ s EXCEPT !.buffer = Append(@, ch), !.pos = @ + 1 ]

caseIdentifier(s, ch, inp) ==
    IF ~(isalnum(ch) \/ ch = "_")
    THEN IF ch = ":" /\ peek(inp, s.pos + 1) = ":"
         THEN [ s EXCEPT !.buffer = @ \o << ch, inp[s.pos + 2] >>,
                         !.pos = @ + 2 ]
         ELSE [ printToken(s, s.buffer, IdentifierKind(s.buffer)) EXCEPT
                  !.buffer = << >>, !.currentState = "None", !.pos = @ + 1 ]
    ELSE [ s EXCEPT !.buffer = Append(@, ch), !.pos = @ + 1 ]

\* Mutant: the buffer is not cleared after the literal is printed.
caseLiteral_KeepsBuffer(s, ch) ==
    IF ~isdigit(ch) /\ ch # "." /\ ch # "'"
    THEN [ printToken(s, s.buffer, "Literal") EXCEPT
             !.currentState = "None", !.pos = @ + 1 ]
    ELSE [ s EXCEPT !.buffer = Append(@, ch), !.pos = @ + 1 ]

\* Mutant: letters are accepted too, as in a numeric suffix.
caseLiteral_AcceptsLetters(s, ch) ==
    IF ~isalnum(ch) /\ ch # "." /\ ch # "'"
    THEN [ printToken(s, s.buffer, "Literal") EXCEPT
             !.buffer = << >>, !.currentState = "None", !.pos = @ + 1 ]
    ELSE [ s EXCEPT !.buffer = Append(@, ch), !.pos = @ + 1 ]

\* Mutant: a completed buffer with more than one '.' is reported invalid.
caseLiteral_Validates(s, ch) ==
    IF ~isdigit(ch) /\ ch # "." /\ ch # "'"
    THEN [ printToken(s, s.buffer,
                      IF Cardinality({ j \in 1..Len(s.buffer) :
                                         s.buffer[j] = "." }) > 1
                      THEN "Invalid" ELSE "Literal") EXCEPT
             !.buffer = << >>, !.currentState = "None", !.pos = @ + 1 ]
    ELSE [ s EXCEPT !.buffer = Append(@, ch), !.pos = @ + 1 ]

caseLiteral(s, ch) ==
    IF ~isdigit(ch) /\ ch # "." /\ ch # "'"
    THEN [ printToken(s, s.buffer, "Literal") EXCEPT
             !.buffer = << >>, !.currentState = "None", !.pos = @ + 1 ]
    ELSE [ s EXCEPT !.buffer = Append(@, ch), !.pos = @ + 1 ]

\* Mutant: the buffer is never extended, every character ends the token.
caseOperatorSeparator_NoExtend(s, ch) ==
    [ printToken(s, s.buffer, s.currentState) EXCEPT
        !.buffer = << >>, !.currentState = "None", !.pos = @ + 1 ]

caseOperatorSeparator(s, ch) ==
    IF ~isOperator(Append(s.buffer, ch)) /\ ~isSeparator(Append(s.buffer, ch))
    THEN [ printToken(s, s.buffer, s.currentState) EXCEPT
             !.buffer = << >>, !.currentState = "None", !.pos = @ + 1 ]
    ELSE [ s EXCEPT !.buffer = Append(@, ch), !.pos = @ + 1 ]

\* Mutant: a run of characters without a start rule is kept in one buffer.
caseInvalid_Accumulates(s, ch) ==
    IF StartState(ch) = "Invalid" /\ ~isspace(ch)
    THEN [ s EXCEPT !.buffer = Append(@, ch), !.pos = @ + 1 ]
    ELSE [ printToken(s, s.buffer, "Invalid") EXCEPT
             !.buffer = << >>, !.currentState = "None", !.pos = @ + 1 ]

caseInvalid(s, ch) ==
    [ printToken(s, s.buffer, "Invalid") EXCEPT
        !.buffer = << >>, !.currentState = "None", !.pos = @ + 1 ]

LoopBody(s, inp) ==
    LET ch == inp[s.pos + 1] IN
    IF s.insideStringLiteral THEN caseInsideString(s, ch)
    ELSE CASE s.currentState = "None" -> caseNone(s, ch)
           [] s.currentState = "PreprocessorDirective" ->
                  casePreprocessorDirective(s, ch)
           [] s.currentState = "Identifier" -> caseIdentifier(s, ch, inp)
           [] s.currentState = "Literal" -> caseLiteral(s, ch)
           [] s.currentState \in { "Operator", "Separator" } ->
                  caseOperatorSeparator(s, ch)
           [] s.currentState = "Comment" -> caseComment(s, ch)
           [] s.currentState = "Invalid" -> caseInvalid(s, ch)
           [] OTHER -> [ s EXCEPT !.pos = @ + 1 ]

\* Mutant: a string left open at the end of the input is reported invalid,
\* and the final identifier is not looked up in the keyword table.
finalToken_Strict(s) ==
    IF s.buffer # << >>
    THEN CASE s.currentState = "Identifier" ->
                  printToken(s, s.buffer, "Identifier")
           [] s.currentState \in { "Literal", "Operator", "Separator",
                                   "Comment", "Invalid" } ->
                  printToken(s, s.buffer,
                             IF s.insideStringLiteral THEN "Invalid"
                                                      ELSE s.currentState)
           [] OTHER -> s
    ELSE s

\* The final token, after the loop.
finalToken(s) ==
    IF s.buffer # << >>
    THEN CASE s.currentState = "Identifier" ->
                  printToken(s, s.buffer,
                             IF isKeyword(s.buffer) THEN "Keyword"
                                                    ELSE "Identifier")
           [] s.currentState \in { "Literal", "Operator", "Separator",
                                   "Comment", "Invalid" } ->
                  printToken(s, s.buffer, s.currentState)
           [] OTHER -> s
    ELSE s

\* lexicalAnalyze on an opened file, as a function of the file's content.
RECURSIVE Run(_, _)
Run(s, inp) ==
    IF s.pos < Len(inp) THEN Run(LoopBody(s, inp), inp) ELSE finalToken(s)

lexicalAnalyze(inp) == Run(Locals0, inp).tokens

(***************************************************************************)
(* The state machine                                                       *)
(***************************************************************************)
Init ==
    /\ fileOpen \in BOOLEAN
    /\ input \in (IF fileOpen THEN Inputs ELSE { << >> })
    /\ pc = "open"
    /\ pos = 0
    /\ buffer = << >>
    /\ currentState = "None"
    /\ insideStringLiteral = FALSE
    /\ tokens = << >>
    /\ accounted = << >>
    /\ errorPrinted = FALSE
    /\ exitCode = -1

Assign(s) ==
    /\ pos' = s.pos
    /\ buffer' = s.buffer
    /\ currentState' = s.currentState
    /\ insideStringLiteral' = s.insideStringLiteral
    /\ tokens' = s.tokens
    /\ accounted' = s.accounted

Reading == pc = "scan" /\ pos < Len(input)

Step ==
    /\ Assign(LoopBody(Cur, input))
    /\ UNCHANGED << input, fileOpen, pc, errorPrinted, exitCode >>

OpenFile ==
    /\ pc = "open"
    /\ fileOpen
    /\ pc' = "scan"
    /\ UNCHANGED << input, fileOpen, pos, buffer, currentState,
                    insideStringLiteral, tokens, accounted, errorPrinted,
                    exitCode >>

OpenFails ==
    /\ pc = "open"
    /\ ~fileOpen
    /\ errorPrinted' = TRUE
    /\ pc' = "closed"
    /\ UNCHANGED << input, fileOpen, pos, buffer, currentState,
                    insideStringLiteral, tokens, accounted, exitCode >>

ReadInsideString == Reading /\ insideStringLiteral /\ Step

ReadNone ==
    Reading /\ ~insideStringLiteral /\ currentState = "None" /\ Step

ReadLine ==
    /\ Reading /\ ~insideStringLiteral
    /\ currentState \in { "PreprocessorDirective", "Comment" }
    /\ Step

ReadIdentifier ==
    Reading /\ ~insideStringLiteral /\ currentState = "Identifier" /\ Step

ReadLiteral ==
    Reading /\ ~insideStringLiteral /\ currentState = "Literal" /\ Step

ReadOperatorSeparator ==
    /\ Reading /\ ~insideStringLiteral
    /\ currentState \in { "Operator", "Separator" }
    /\ Step

ReadInvalid ==
    Reading /\ ~insideStringLiteral /\ currentState = "Invalid" /\ Step

FinalToken ==
    /\ pc = "scan"
    /\ pos >= Len(input)
    /\ Assign(finalToken(Cur))
    /\ pc' = "closed"
    /\ UNCHANGED << input, fileOpen, errorPrinted, exitCode >>

MainReturn ==
    /\ pc = "closed"
    /\ exitCode' = 0
    /\ pc' = "exit"
    /\ UNCHANGED << input, fileOpen, pos, buffer, currentState,
                    insideStringLiteral, tokens, accounted, errorPrinted >>

Next ==
    \/ OpenFile
    \/ OpenFails
    \/ ReadInsideString
    \/ ReadNone
    \/ ReadLine
    \/ ReadIdentifier
    \/ ReadLiteral
    \/ ReadOperatorSeparator
    \/ ReadInvalid
    \/ FinalToken
    \/ MainReturn

Spec == Init /\ [][Next]_vars

(***************************************************************************)
(* Type correctness                                                        *)
(***************************************************************************)
States ==
    { "None", "Identifier", "Keyword", "Literal", "Operator", "Separator",
      "Comment", "Invalid", "PreprocessorDirective" }

TypeOK ==
    /\ pc \in { "open", "scan", "closed", "exit" }
    /\ pos \in 0..Len(input)
    /\ currentState \in States
    /\ insideStringLiteral \in BOOLEAN
    /\ exitCode \in { -1, 0 }

\* lexicalAnalyze has returned after scanning an opened file.
Done == pc \in { "closed", "exit" } /\ fileOpen

\* The recursive function and the state machine compute the same tokens.
RunAgrees == Done => tokens = lexicalAnalyze(input)

(***************************************************************************)
(* Vocabulary of the properties                                            *)
(***************************************************************************)
Quote == "\""

T(k, lex) == [ kind |-> k, lexeme |-> lex ]

\* The printed lines, without the recorded offsets.
Plain(ts) == [ i \in 1..Len(ts) |-> T(ts[i].kind, ts[i].lexeme) ]

Kinds(ts) == [ i \in 1..Len(ts) |-> ts[i].kind ]

Last(ts) == ts[Len(ts)]

\* Position in the input of the character right after the lexeme of t.
After(t) == t.offset + Len(t.lexeme) + 1

\* A character is read by the scanning loop in this step.
ReadStep == pc = "scan" /\ pos < Len(input) /\ pc' = "scan"

\* The loop is left and the final token is handled in this step.
FinalStep == pc = "scan" /\ pc' = "closed"

Emits(k, lex) ==
    /\ Len(tokens') = Len(tokens) + 1
    /\ SubSeq(tokens', 1, Len(tokens)) = tokens
    /\ Plain(tokens')[Len(tokens')] = T(k, lex)

(***************************************************************************)
(* C1: no character is silently dropped.  The lexemes printed, the         *)
(* whitespace skipped in Start and the newlines that ended a directive or  *)
(* a comment, taken in order, are the whole input.                         *)
(***************************************************************************)
C1_NoCharacterDropped == Done => accounted = input

(***************************************************************************)
(* C2: "int x = 5;" gives keyword int, identifier x, operator =, literal   *)
(* 5, separator ; and, in general, an operator or separator character      *)
(* written directly after an identifier, keyword or number is the start of *)
(* the very next token ('#', which opens a directive in Start, aside).     *)
(***************************************************************************)
TokensIntX5 ==
    << T("keyword", << "i", "n", "t" >>), T("identifier", << "x" >>),
       T("operator", << "=" >>), T("literal", << "5" >>),
       T("separator", << ";" >>) >>

C2_SeparatorAfterWord ==
    Done =>
      /\ input = InputIntX5 => Plain(tokens) = TokensIntX5
      /\ \A i \in 1..Len(tokens) :
           LET t == tokens[i]
               p == After(t)
           IN  ( /\ \/ t.kind \in { "identifier", "keyword" }
                    \/ t.kind = "literal" /\ isdigit(t.lexeme[1])
                 /\ p <= Len(input)
                 /\ input[p] # "#"
                 /\ isOperator(<< input[p] >>) \/ isSeparator(<< input[p] >>) )
               => /\ i < Len(tokens)
                  /\ tokens[i + 1].offset = p - 1

(***************************************************************************)
(* C3: when the input ends with a non-empty buffer in a state other than   *)
(* Start, exactly one final token carrying the whole buffer is printed;    *)
(* with an empty buffer no trailing token is printed.                      *)
(***************************************************************************)
C3_EndOfInputFlush ==
    [][ FinalStep =>
          IF buffer # << >> /\ currentState # "None"
          THEN \E k \in { "identifier", "keyword", "literal", "operator",
                          "separator", "comment", "invalid",
                          "preprocessor directive" } : Emits(k, buffer)
          ELSE tokens' = tokens ]_vars

(***************************************************************************)
(* C4: after a double quote read in Start every character up to and        *)
(* including the next double quote is appended verbatim, nothing is        *)
(* printed or skipped meanwhile, and on the closing quote exactly one      *)
(* literal carrying the buffer is printed and the state returns to Start.  *)
(***************************************************************************)
TokensHelloWorld == << T("literal", InputHelloWorld) >>

\* A step that reads the opening quote in Start.
OpensString ==
    ReadStep /\ ~insideStringLiteral /\ currentState = "None"
             /\ input[pos + 1] = Quote
    => /\ insideStringLiteral'
       /\ buffer' = << Quote >>
       /\ tokens' = tokens
       /\ pos' = pos + 1

\* A step that reads a character inside the string.
InsideString ==
    ReadStep /\ insideStringLiteral
    => /\ pos' = pos + 1
       /\ IF input[pos + 1] = Quote
          THEN /\ Emits("literal", Append(buffer, Quote))
               /\ buffer' = << >>
               /\ currentState' = "None"
               /\ ~insideStringLiteral'
          ELSE /\ buffer' = Append(buffer, input[pos + 1])
               /\ tokens' = tokens
               /\ accounted' = accounted
               /\ insideStringLiteral'

\* Every printed lexeme that starts with a quote is a literal, is the
\* input text from the quote on, and holds no quote before its last character.
QuotedLexemes ==
    \A i \in 1..Len(tokens) :
      LET t == tokens[i] IN
      t.lexeme[1] = Quote =>
        /\ t.kind = "literal"
        /\ input[t.offset + 1] = Quote
        /\ t.lexeme = SubSeq(input, t.offset + 1, t.offset + Len(t.lexeme))
        /\ \A j \in 2..(Len(t.lexeme) - 1) : t.lexeme[j] # Quote

C4_StringLiteralIntegrity ==
    /\ [][OpensString /\ InsideString]_vars
    /\ [](QuotedLexemes)
    /\ [](Done /\ input = InputHelloWorld => Plain(tokens) = TokensHelloWorld)

\* A closed string literal holding a space and a newline has been printed.
C4_Witness ==
    /\ Done
    /\ \E i \in 1..Len(tokens) :
         /\ tokens[i].kind = "literal"
         /\ Len(tokens[i].lexeme) >= 3
         /\ tokens[i].lexeme[1] = Quote
         /\ Last(tokens[i].lexeme) = Quote
         /\ \E j \in 1..Len(tokens[i].lexeme) :
              tokens[i].lexeme[j] \in { " ", "\n", "#", ";" }

(***************************************************************************)
(* C5: a '#' read in Start and every character after it up to, but not     *)
(* including, the next newline are printed as exactly one preprocessor     *)
(* directive; the newline is consumed without being buffered and scanning  *)
(* resumes in Start with the character after it.                           *)
(***************************************************************************)
DirectiveInclude ==
    T("preprocessor directive", SubSeq(InputInclude, 1, 19))

OpensDirective ==
    ReadStep /\ ~insideStringLiteral /\ currentState = "None"
             /\ input[pos + 1] = "#"
    => /\ currentState' = "PreprocessorDirective"
       /\ ~insideStringLiteral'
       /\ buffer' = << "#" >>
       /\ tokens' = tokens
       /\ pos' = pos + 1

InsideDirective ==
    ReadStep /\ ~insideStringLiteral /\ currentState = "PreprocessorDirective"
    => /\ pos' = pos + 1
       /\ ~insideStringLiteral'
       /\ IF input[pos + 1] = "\n"
          THEN /\ Emits("preprocessor directive", buffer)
               /\ buffer' = << >>
               /\ currentState' = "None"
          ELSE /\ buffer' = Append(buffer, input[pos + 1])
               /\ tokens' = tokens
               /\ currentState' = "PreprocessorDirective"

\* Every directive printed is a line of the input from a '#' up to a newline.
DirectiveLexemes ==
    \A i \in 1..Len(tokens) :
      LET t == tokens[i] IN
      t.kind = "preprocessor directive" =>
        /\ t.lexeme[1] = "#"
        /\ t.lexeme = SubSeq(input, t.offset + 1, t.offset + Len(t.lexeme))
        /\ \A j \in 1..Len(t.lexeme) : t.lexeme[j] # "\n"
        /\ After(t) <= Len(input)
        /\ input[After(t)] = "\n"

C5_PreprocessorDirective ==
    /\ [][OpensDirective /\ InsideDirective]_vars
    /\ [](DirectiveLexemes)
    /\ [](Done /\ input = InputInclude =>
            /\ Plain(tokens)[1] = DirectiveInclude
            /\ Len(tokens) > 1
            /\ tokens[2].offset = 20)

\* A directive holding a quote or '<' was printed and a token follows it.
C5_Witness ==
    /\ Done
    /\ \E i \in 1..(Len(tokens) - 1) :
         /\ tokens[i].kind = "preprocessor directive"
         /\ \E j \in 1..Len(tokens[i].lexeme) :
              tokens[i].lexeme[j] \in { Quote, "<", " " }
         /\ tokens[i + 1].offset = After(tokens[i])

(***************************************************************************)
(* C6: in the Identifier state a ':' whose next character is ':' makes     *)
(* both colons part of the identifier, which goes on; a ':' followed by    *)
(* anything else ends the identifier.  Nothing but that second colon is    *)
(* ever consumed by the lookahead.                                         *)
(***************************************************************************)
ColonInIdentifier ==
    ReadStep /\ ~insideStringLiteral /\ currentState = "Identifier"
             /\ input[pos + 1] = ":"
    => IF pos + 2 <= Len(input) /\ input[pos + 2] = ":"
       THEN /\ buffer' = buffer \o << ":", ":" >>
            /\ pos' = pos + 2
            /\ currentState' = "Identifier"
            /\ tokens' = tokens
       ELSE /\ \E k \in { "identifier", "keyword" } : Emits(k, buffer)
            /\ buffer' = << >>
            /\ pos' = pos + 1
            /\ currentState' = "None"

\* Every other read consumes exactly one character.
OneCharacterPerRead ==
    ReadStep /\ ~( /\ ~insideStringLiteral /\ currentState = "Identifier"
                   /\ input[pos + 1] = ":"
                   /\ pos + 2 <= Len(input) /\ input[pos + 2] = ":" )
    => pos' = pos + 1

C6_NamespaceQualifier ==
    /\ [][ColonInIdentifier /\ OneCharacterPerRead]_vars
    /\ [](Done /\ input = InputStdCout =>
            Plain(tokens) = << T("identifier", InputStdCout) >>)
    /\ [](Done /\ input = InputABC =>
            Plain(tokens) = << T("identifier", InputABC) >>)

\* An identifier holding "::" was printed, ended by a ':' that stands alone.
C6_Witness ==
    /\ Done
    /\ tokens # << >>
    /\ tokens[1].kind = "identifier"
    /\ \E j \in 1..(Len(tokens[1].lexeme) - 1) :
         tokens[1].lexeme[j] = ":" /\ tokens[1].lexeme[j + 1] = ":"
    /\ After(tokens[1]) <= Len(input)
    /\ input[After(tokens[1])] = ":"

(***************************************************************************)
(* C7: in the Operator/Separator state the buffer takes the next character *)
(* exactly when buffer + c is a known operator or separator, and a token   *)
(* is printed only when it is not, or at the end of the input.  So no      *)
(* operator or separator printed is followed in the input by a character   *)
(* that would extend it, and "x << y" gives x, << and y.                   *)
(***************************************************************************)
Known == operators \cup separators

TokensShift ==
    << T("identifier", << "x" >>), T("operator", << "<", "<" >>),
       T("identifier", << "y" >>) >>

GreedyStep ==
    ReadStep /\ ~insideStringLiteral
             /\ currentState \in { "Operator", "Separator" }
    => IF Append(buffer, input[pos + 1]) \in Known
       THEN /\ buffer' = Append(buffer, input[pos + 1])
            /\ tokens' = tokens
            /\ currentState' = currentState
       ELSE /\ \E k \in { "operator", "separator" } : Emits(k, buffer)
            /\ buffer' = << >>
            /\ currentState' = "None"

LongestMatch ==
    \A i \in 1..Len(tokens) :
      LET t == tokens[i] IN
      t.kind \in { "operator", "separator" } =>
        /\ t.lexeme \in Known
        /\ t.lexeme = SubSeq(input, t.offset + 1, t.offset + Len(t.lexeme))
        /\ After(t) <= Len(input) =>
             Append(t.lexeme, input[After(t)]) \notin Known

C7_GreedyLongestMatch ==
    /\ [][GreedyStep]_vars
    /\ [](LongestMatch)
    /\ [](Done /\ input = InputShift => Plain(tokens) = TokensShift)

\* A two-character operator was printed although its first character alone
\* is an operator too, and a further character follows it in the input.
C7_Witness ==
    /\ Done
    /\ \E i \in 1..Len(tokens) :
         /\ tokens[i].kind = "operator"
         /\ Len(tokens[i].lexeme) = 2
         /\ << tokens[i].lexeme[1] >> \in operators
         /\ After(tokens[i]) <= Len(input)

(***************************************************************************)
(* C8: a character read in Start that matches no start rule is printed as  *)
(* exactly one invalid token holding that single character, when the next  *)
(* character arrives or at the end of the input; no error is raised and    *)
(* scanning goes on.  Every invalid token has a lexeme of length 1.        *)
(***************************************************************************)
NoStartRule(ch) ==
    /\ ~isspace(ch)
    /\ ch # "#"
    /\ ~(isalpha(ch) \/ ch = "_")
    /\ ~isdigit(ch)
    /\ ch # Quote
    /\ << ch >> \notin Known

EntersInvalid ==
    ReadStep /\ ~insideStringLiteral /\ currentState = "None"
             /\ NoStartRule(input[pos + 1])
    => /\ currentState' = "Invalid"
       /\ buffer' = << input[pos + 1] >>
       /\ tokens' = tokens

LeavesInvalid ==
    (ReadStep \/ FinalStep) /\ currentState = "Invalid"
    => /\ Emits("invalid", buffer)
       /\ Len(buffer) = 1
       /\ ~errorPrinted'
       /\ ReadStep => currentState' = "None" /\ buffer' = << >>

InvalidLexemes ==
    \A i \in 1..Len(tokens) :
      LET t == tokens[i] IN
      t.kind = "invalid" =>
        /\ Len(t.lexeme) = 1
        /\ NoStartRule(t.lexeme[1])
        /\ input[t.offset + 1] = t.lexeme[1]

C8_InvalidCharacter ==
    /\ [][EntersInvalid /\ LeavesInvalid]_vars
    /\ [](InvalidLexemes)
    /\ [](Done /\ input = InputAt =>
            Plain(tokens) = << T("invalid", << "@" >>) >>)

\* One invalid token was printed when the next character arrived and
\* another one at the end of the input.
C8_Witness ==
    /\ Done
    /\ Len(tokens) >= 2
    /\ tokens[1].kind = "invalid"
    /\ After(tokens[1]) <= Len(input)
    /\ Last(tokens).kind = "invalid"
    /\ After(Last(tokens)) = Len(input) + 1

(***************************************************************************)
(* C9: the lexemes of a run, each followed by a single space, tokenize     *)
(* again to the same sequence of kinds, literals and comments left out.    *)
(***************************************************************************)
RECURSIVE Rejoin(_)
Rejoin(ts) ==
    IF ts = << >> THEN << >>
    ELSE ts[1].lexeme \o << " " >> \o Rejoin(Tail(ts))

RECURSIVE OtherKinds(_)
OtherKinds(ts) ==
    IF ts = << >> THEN << >>
    ELSE IF ts[1].kind \in { "literal", "comment" }
         THEN OtherKinds(Tail(ts))
         ELSE << ts[1].kind >> \o OtherKinds(Tail(ts))

SecondRun == lexicalAnalyze(Rejoin(tokens))

Idempotent == OtherKinds(SecondRun) = OtherKinds(tokens)

\* The claim as stated, for every input.
C9_Idempotence == Done => Idempotent

NoDirectivePrinted ==
    \A i \in 1..Len(tokens) : tokens[i].kind # "preprocessor directive"

\* As amended: for every input whose run prints no preprocessor directive.
C9_IdempotenceWithoutDirectives == Done /\ NoDirectivePrinted => Idempotent

\* A run without directives printed two or more tokens of kinds other than
\* literal, the last one at the end of the input, one of them ended by a
\* character that is not whitespace.
C9_Witness ==
    /\ Done
    /\ NoDirectivePrinted
    /\ Len(OtherKinds(tokens)) >= 2
    /\ After(Last(tokens)) = Len(input) + 1
    /\ \E i \in 1..Len(tokens) :
         After(tokens[i]) <= Len(input) /\ ~isspace(input[After(tokens[i])])
    /\ Len(SecondRun) = Len(tokens)

(***************************************************************************)
(* C10: when a double quote is read in Start and the input ends before     *)
(* another one, exactly one token is printed for it at the end of the      *)
(* input: a literal whose lexeme runs from the opening quote to the last   *)
(* character of the input.                                                 *)
(***************************************************************************)
UnterminatedFlush ==
    FinalStep /\ insideStringLiteral
    => /\ Emits("literal", buffer)
       /\ buffer # << >>
       /\ buffer[1] = Quote
       /\ \A j \in 2..Len(buffer) : buffer[j] # Quote
       /\ buffer = SubSeq(input, Len(input) - Len(buffer) + 1, Len(input))

\* While the string is open nothing of it has been printed yet.
OpenStringUnprinted ==
    pc = "scan" /\ insideStringLiteral =>
      \A i \in 1..Len(tokens) : After(tokens[i]) <= pos - Len(buffer) + 1

C10_UnterminatedString ==
    /\ [][UnterminatedFlush]_vars
    /\ [](OpenStringUnprinted)
    /\ [](Done /\ input = InputUnterminated =>
            Plain(tokens) = << T("literal", InputUnterminated) >>)

\* The input ended inside a string that held more than its opening quote,
\* after another token had been printed.
C10_Witness ==
    /\ Done
    /\ insideStringLiteral
    /\ Len(tokens) >= 2
    /\ Last(tokens).kind = "literal"
    /\ Len(Last(tokens).lexeme) >= 2
    /\ Last(tokens).lexeme[1] = Quote

(***************************************************************************)
(* C11: when the file cannot be opened the program prints an error, prints *)
(* no token and exits with a non-zero status; when the file was opened and *)
(* scanned to its end the program exits with status 0.                     *)
(***************************************************************************)
C11_ExitStatus ==
    pc = "exit" =>
      IF fileOpen
      THEN exitCode = 0 /\ ~errorPrinted
      ELSE errorPrinted /\ tokens = << >> /\ exitCode # 0

(***************************************************************************)
(* C12: in the Identifier, numeric Literal, Operator/Separator and Invalid *)
(* states the character whose arrival makes the pending token be printed   *)
(* is not consumed by that: in the same step it is treated by the Start    *)
(* rules, that is skipped if it is whitespace and otherwise made the first *)
(* character of the next token.                                            *)
(***************************************************************************)
\* A read that prints the pending token of one of the four states.
TriggeredPrint ==
    /\ ReadStep
    /\ ~insideStringLiteral
    /\ currentState \in { "Identifier", "Literal", "Operator", "Separator",
                          "Invalid" }
    /\ Len(tokens') = Len(tokens) + 1

C12_TriggerReoffered ==
    [][ TriggeredPrint =>
          LET ch == input[pos + 1] IN
          IF isspace(ch)
          THEN buffer' = << >> /\ currentState' = "None"
          ELSE /\ buffer' = << ch >>
               /\ currentState' = StartState(ch)
               /\ insideStringLiteral' = (ch = Quote) ]_vars

(***************************************************************************)
(* C13: the token printed by the Operator/Separator state, on a character  *)
(* that does not extend it or at the end of the input, is an operator if   *)
(* the completed buffer is in the operator table and a separator           *)
(* otherwise, also for "::" and "->".                                      *)
(***************************************************************************)
C13_KindOfCompletedBuffer ==
    [][ /\ ReadStep \/ FinalStep
        /\ ~insideStringLiteral
        /\ currentState \in { "Operator", "Separator" }
        /\ Len(tokens') = Len(tokens) + 1
        => Emits(IF isOperator(buffer) THEN "operator" ELSE "separator",
                 buffer) ]_vars

(***************************************************************************)
(* C14: whenever the lexer is between characters in the numeric-literal    *)
(* state (Literal, not inside a string), the buffer holds only digits and  *)
(* at most one '.'.                                                        *)
(***************************************************************************)
InNumericLiteral ==
    pc = "scan" /\ currentState = "Literal" /\ ~insideStringLiteral

Dots(buf) == Cardinality({ j \in 1..Len(buf) : buf[j] = "." })

C14_DigitsAndOneDot ==
    InNumericLiteral =>
      /\ \A j \in 1..Len(buffer) : isdigit(buffer[j]) \/ buffer[j] = "."
      /\ Dots(buffer) <= 1

\* As amended: the buffer starts with a digit and holds only digits, '.' and
\* the single quote, each any number of times.
C14_DigitsDotsQuotes ==
    InNumericLiteral =>
      /\ buffer # << >>
      /\ isdigit(buffer[1])
      /\ \A j \in 1..Len(buffer) :
           isdigit(buffer[j]) \/ buffer[j] = "." \/ buffer[j] = "'"
      /\ buffer = SubSeq(input, pos - Len(buffer) + 1, pos)

\* The numeric-literal state holds a buffer with two dots.
C14_Witness == InNumericLiteral /\ Dots(buffer) >= 2

(***************************************************************************)
(* C15: once a digit is read in Start every following digit, '.' or single *)
(* quote is buffered, and the buffer is printed as exactly one literal on  *)
(* the first other character or at the end of the input, without being     *)
(* checked again: the numeric state never prints an invalid token, and     *)
(* "1.2.3" followed by a space gives the single literal 1.2.3.             *)
(***************************************************************************)
OpensNumber ==
    ReadStep /\ ~insideStringLiteral /\ currentState = "None"
             /\ isdigit(input[pos + 1])
    => /\ currentState' = "Literal"
       /\ ~insideStringLiteral'
       /\ buffer' = << input[pos + 1] >>
       /\ tokens' = tokens

InsideNumber ==
    ReadStep /\ ~insideStringLiteral /\ currentState = "Literal"
    => IF isdigit(input[pos + 1]) \/ input[pos + 1] \in { ".", "'" }
       THEN /\ buffer' = Append(buffer, input[pos + 1])
            /\ tokens' = tokens
            /\ currentState' = "Literal"
       ELSE /\ Emits("literal", buffer)
            /\ buffer' = << >>
            /\ currentState' = "None"

NumberAtEnd ==
    FinalStep /\ ~insideStringLiteral /\ currentState = "Literal"
    => Emits("literal", buffer)

\* Every lexeme printed that starts with a digit is a literal.
NumbersAreLiterals ==
    \A i \in 1..Len(tokens) :
      isdigit(tokens[i].lexeme[1]) => tokens[i].kind = "literal"

C15_NumericLiteralUnconditional ==
    /\ [][OpensNumber /\ InsideNumber /\ NumberAtEnd]_vars
    /\ [](NumbersAreLiterals)
    /\ [](Done /\ input = InputNumber123 =>
            Plain(tokens) = << T("literal", SubSeq(InputNumber123, 1, 5)) >>)

\* A literal that is neither an integer nor a floating-point number was
\* printed when another character arrived.
C15_Witness ==
    /\ Done
    /\ \E i \in 1..Len(tokens) :
         /\ tokens[i].kind = "literal"
         /\ isdigit(tokens[i].lexeme[1])
         /\ Dots(tokens[i].lexeme) >= 2
         /\ After(tokens[i]) <= Len(input)

(***************************************************************************)
(* C16: the machine begins in Start with an empty buffer, and right after  *)
(* every token printed inside the scanning loop the buffer is empty and    *)
(* the state is Start.  So, between characters, the buffer is empty        *)
(* exactly when the state is Start, and every token printed has a          *)
(* non-empty lexeme.                                                       *)
(***************************************************************************)
BeginsInStart == pc = "open" => buffer = << >> /\ currentState = "None"

EmptyBufferIffStart == (buffer = << >>) <=> (currentState = "None")

NonEmptyLexemes == \A i \in 1..Len(tokens) : tokens[i].lexeme # << >>

PrintResets ==
    ReadStep /\ tokens' # tokens
    => buffer' = << >> /\ currentState' = "None" /\ ~insideStringLiteral'

C16_StartBufferInvariant ==
    /\ [](BeginsInStart)
    /\ [](EmptyBufferIffStart)
    /\ [](NonEmptyLexemes)
    /\ [][PrintResets]_vars

\* A directive was printed inside the loop and the lexer is back in Start.
C16_Witness ==
    /\ pc = "scan"
    /\ tokens # << >>
    /\ Last(tokens).kind = "preprocessor directive"
    /\ currentState = "None"
    /\ buffer = << >>

(***************************************************************************)
(* C17: every lexeme printed is a contiguous piece of the input, the       *)
(* pieces of different tokens do not overlap and tokens are printed in the *)
(* order of their places in the input; nothing is printed out of order,    *)
(* twice, or from characters that are not in the input.                    *)
(***************************************************************************)
LexemesAreInputPieces ==
    \A i \in 1..Len(tokens) :
      LET t == tokens[i] IN
      /\ t.offset >= 0
      /\ After(t) <= Len(input) + 1
      /\ t.lexeme = SubSeq(input, t.offset + 1, t.offset + Len(t.lexeme))

PiecesInOrder ==
    \A i \in 1..(Len(tokens) - 1) : After(tokens[i]) <= tokens[i + 1].offset + 1

\* What was printed stays printed: the output only grows at its end.
OutputOnlyGrows ==
    /\ Len(tokens') >= Len(tokens)
    /\ SubSeq(tokens', 1, Len(tokens)) = tokens

C17_OrderedEmission ==
    /\ [](LexemesAreInputPieces)
    /\ [](PiecesInOrder)
    /\ [][OutputOnlyGrows]_vars

\* Three tokens were printed, the second one of more than one character.
C17_Witness ==
    /\ Done
    /\ Len(tokens) >= 3
    /\ Len(tokens[2].lexeme) >= 2

(***************************************************************************)
(* C18: a completed Identifier buffer is printed as keyword exactly when   *)
(* the whole buffer is in the keyword table and as identifier otherwise    *)
(* (so for buffers holding "::", for std::cout, for true and false).  At   *)
(* the end of the input a buffer gets the kind the loop would give it.     *)
(***************************************************************************)
WordKind(buf) == IF buf \in keywords THEN "keyword" ELSE "identifier"

WordPrinted ==
    (ReadStep \/ FinalStep) /\ ~insideStringLiteral
      /\ currentState = "Identifier" /\ tokens' # tokens
    => Emits(WordKind(buffer), buffer)

WordLexemes ==
    \A i \in 1..Len(tokens) :
      LET t == tokens[i] IN
      (isalpha(t.lexeme[1]) \/ t.lexeme[1] = "_") => t.kind = WordKind(t.lexeme)

\* The input ended in the Identifier state: with one more space after it the
\* loop prints the same tokens.
FlushAsLoop ==
    Done /\ currentState = "Identifier" =>
      Plain(lexicalAnalyze(Append(input, " "))) = Plain(tokens)

C18_KeywordOrIdentifier ==
    /\ [][WordPrinted]_vars
    /\ [](WordLexemes)
    /\ [](FlushAsLoop)
    /\ [](Done /\ input = InputTrue =>
            Plain(tokens) = << T("identifier", InputTrue) >>)
    /\ [](Done /\ input = InputFalse =>
            Plain(tokens) = << T("identifier", SubSeq(InputFalse, 1, 5)) >>)
    /\ [](Done /\ input = InputStdCout =>
            Kinds(tokens) = << "identifier" >>)

\* A keyword was printed by the loop and another one at the end of the
\* input.
C18_Witness ==
    /\ Done
    /\ currentState = "Identifier"
    /\ Len(tokens) >= 2
    /\ tokens[1].kind = "keyword"
    /\ Last(tokens).kind = "keyword"

(***************************************************************************)
(* C19: comments are not detected.  The Comment state is never entered and *)
(* no token of kind comment, nor of the fallback kind unknown, is ever     *)
(* printed; "//" read in Start is handled by the Operator/Separator state  *)
(* as the operator '/'.                                                    *)
(***************************************************************************)
NoCommentState == currentState # "Comment"

NoCommentToken ==
    \A i \in 1..Len(tokens) : tokens[i].kind \notin { "comment", "unknown" }

SlashInStart ==
    ReadStep /\ ~insideStringLiteral /\ currentState = "None"
             /\ input[pos + 1] = "/"
    => currentState' = "Operator" /\ buffer' = << "/" >>

C19_NoCommentDetection ==
    /\ [](NoCommentState)
    /\ [](NoCommentToken)
    /\ [][SlashInStart]_vars
    /\ [](Done /\ input = InputSlashes =>
            /\ Plain(tokens)[1] = T("operator", << "/" >>)
            /\ tokens[1].offset = 0)

\* The run on "// x" is over and has printed the operator '/' first.
C19_Witness ==
    /\ Done
    /\ input = InputSlashes
    /\ tokens # << >>
    /\ tokens[1].kind = "operator"

(***************************************************************************)
(* C20: the table entry "?:" is never printed.  '?' alone is in neither    *)
(* table, so '?' read in Start enters the Invalid state; no token has the  *)
(* lexeme "?:", and every operator or separator printed begins with a      *)
(* character that is by itself an operator or a separator.                 *)
(***************************************************************************)
QuestionInStart ==
    ReadStep /\ ~insideStringLiteral /\ currentState = "None"
             /\ input[pos + 1] = "?"
    => currentState' = "Invalid" /\ buffer' = << "?" >>

NoTernaryToken ==
    \A i \in 1..Len(tokens) : tokens[i].lexeme # << "?", ":" >>

FirstCharacterKnown ==
    \A i \in 1..Len(tokens) :
      tokens[i].kind \in { "operator", "separator" } =>
        << tokens[i].lexeme[1] >> \in Known

C20_TernaryUnreachable ==
    /\ << "?" >> \notin Known
    /\ << "?", ":" >> \in operators
    /\ [][QuestionInStart]_vars
    /\ [](NoTernaryToken)
    /\ [](FirstCharacterKnown)

\* The input held "?:" outside any string or directive; the '?' was printed
\* as an invalid token.
C20_Witness ==
    /\ Done
    /\ \E i \in 1..Len(tokens) :
         /\ tokens[i] = [ kind |-> "invalid", lexeme |-> << "?" >>,
                          offset |-> tokens[i].offset ]
         /\ After(tokens[i]) <= Len(input)
         /\ input[After(tokens[i])] = ":"

=============================================================================
